---- MODULE Spec2Model ----
(***************************************************************************)
(* Model of hashmapper: a bucketed hash map (src/src/lib.rs) over buckets  *)
(* of key/value pairs (src/src/bucket.rs), with its entry handle           *)
(* (src/src/entry.rs) and iterators (src/src/lib.rs, key_values.rs).       *)
(*                                                                         *)
(* Vec<Bucket<K, V>> is held as its length `len` and the item lists of its *)
(* non-empty buckets `at` (bucket index, from 0, to items); every other    *)
(* index below `len` is an empty bucket.  Option<T> is a sequence of       *)
(* length at most one.  A reference into the table (&mut V) is the place   *)
(* it points to: bucket index and position.                                *)
(***************************************************************************)
EXTENDS Integers, Sequences, FiniteSets, TLC

\* ---- bounds of the exploration ----
NumVals == 2
\* insert calls explored one by one from an empty table, and again from the
\* count at which a table of INITIAL_CAPACITY buckets grows
MaxBurst == 3

\* ---- program constants ----
INITIAL_CAPACITY == 1024
LOAD_FACTOR == 3

\* two u64 keys whose digests share a bucket among 1024 and part among 2048
Keys == {3, 1027}
Vals == 1..NumVals

None == <<>>
Some(x) == <<x>>

\* the outcome of a call: a returned value, or a panic
Ok(x) == [panic |-> FALSE, val |-> x]
Panic == [panic |-> TRUE, val |-> None]

\* ---- std DefaultHasher, as the table uses it ----
\* A stand-in for the digest algorithm, which is outside the repository: a
\* deterministic function of everything written to the hasher so far.
\* finish() reads the state and does not reset it.
DigestSpace == 2 ^ 16
HasherNew == 5381
HasherWrite(h, key) == (h * 33 + key) % DigestSpace
HasherFinish(h) == h

\* ---- Bucket (src/src/bucket.rs), on the item list ----
RECURSIVE Position(_, _, _)
\* items.iter().position(|(k, _)| k == key), from position i; 0 when none
Position(items, key, i) ==
    IF i > Len(items) THEN 0
    ELSE IF items[i][1] = key THEN i
    ELSE Position(items, key, i + 1)

BucketGet(items, key) ==
    LET i == Position(items, key, 1)
    IN IF i = 0 THEN None ELSE Some(items[i][2])

\* the place of the value BucketGet returns: Option<&mut V> as a position
BucketGetMut(items, key) ==
    LET i == Position(items, key, 1)
    IN IF i = 0 THEN None ELSE Some(i)

BucketContainsKey(items, key) == \E i \in 1..Len(items) : items[i][1] = key

BucketInsertAppends(items, key, value) ==
    LET i == Position(items, key, 1)
    IN [items |-> Append(items, <<key, value>>),
        ret |-> IF i = 0 THEN None ELSE Some(items[i][2])]

BucketInsertKeepsOld(items, key, value) ==
    LET i == Position(items, key, 1)
    IN IF i = 0
       THEN [items |-> Append(items, <<key, value>>), ret |-> None]
       ELSE [items |-> items, ret |-> Some(items[i][2])]

BucketInsert(items, key, value) ==
    LET i == Position(items, key, 1)
    IN IF i = 0
       THEN [items |-> Append(items, <<key, value>>), ret |-> None]
       ELSE [items |-> [items EXCEPT ![i] = <<key, value>>],
             ret |-> Some(items[i][2])]

\* Bucket::insert_mut is called by HashMap::insert_mut and is not in the
\* sources: the placement of insert, returning the place of the stored value.
BucketInsertMut(items, key, value) ==
    LET i == Position(items, key, 1)
    IN IF i = 0
       THEN [items |-> Append(items, <<key, value>>), ret |-> Len(items) + 1]
       ELSE [items |-> [items EXCEPT ![i] = <<key, value>>], ret |-> i]

OrderedRemove(items, i) ==
    SubSeq(items, 1, i - 1) \o SubSeq(items, i + 1, Len(items))

\* Vec::swap_remove(i): the last element takes position i
SwapRemove(items, i) ==
    LET n == Len(items)
    IN IF i = n THEN SubSeq(items, 1, n - 1)
       ELSE SubSeq([items EXCEPT ![i] = items[n]], 1, n - 1)

BucketRemoveKeeps(items, key) ==
    LET i == Position(items, key, 1)
    IN IF i = 0 THEN [items |-> items, ret |-> None]
       ELSE [items |-> items, ret |-> Some(items[i][2])]

BucketRemove(items, key) ==
    LET i == Position(items, key, 1)
    IN IF i = 0 THEN [items |-> items, ret |-> None]
       ELSE [items |-> SwapRemove(items, i), ret |-> Some(items[i][2])]

BucketAt(items, idx) == IF idx < Len(items) THEN Some(items[idx + 1]) ELSE None

\* ---- HashMap (src/src/lib.rs) ----
\* a table value: [buckets |-> [len, at], num_items]
BucketsNew(n) == [len |-> n, at |-> <<>>]

HashMapNew == [buckets |-> BucketsNew(0), num_items |-> 0]

\* buckets[idx].items
ItemsOf(bkts, idx) == IF idx \in DOMAIN bkts.at THEN bkts.at[idx] ELSE <<>>

\* buckets with buckets[idx].items set to items
WithItems(bkts, idx, items) ==
    LET others == DOMAIN bkts.at \ {idx}
        rest == IF others = {} THEN <<>> ELSE [i \in others |-> bkts.at[i]]
    IN [len |-> bkts.len,
        at |-> IF items = <<>> THEN rest ELSE (idx :> items) @@ rest]

\* the slot of a key under a hasher made for this one call
SlotOf(key, len) == HasherFinish(HasherWrite(HasherNew, key)) % len

Min(S) == CHOOSE x \in S : \A y \in S : x <= y

RECURSIVE DrainRange(_, _, _)
\* the pairs of buckets lo..hi, by bucket index and then by position (the
\* range is halved to keep the evaluation shallow; the order is the loop's)
DrainRange(bkts, lo, hi) ==
    IF ~\E i \in DOMAIN bkts.at : lo <= i /\ i <= hi THEN <<>>
    ELSE IF lo = hi THEN bkts.at[lo]
    ELSE LET mid == (lo + hi) \div 2
         IN DrainRange(bkts, lo, mid) \o DrainRange(bkts, mid + 1, hi)

\* buckets.iter_mut().flat_map(|bkt| bkt.items.drain(..)): every pair
Drain(bkts) == DrainRange(bkts, 0, bkts.len - 1)

\* one turn of the loop of resize: the ONE hasher of the loop is written with
\* the key, and the pair goes to the slot of its running finish()
RehashOne(st, pair) ==
    LET key == pair[1]
        value == pair[2]
        h == HasherWrite(st.hasher, key)
        idx == HasherFinish(h) % st.new_buckets.len
        r == BucketInsert(ItemsOf(st.new_buckets, idx), key, value)
    IN [new_buckets |-> WithItems(st.new_buckets, idx, r.items), hasher |-> h]

RECURSIVE Rehash(_, _, _, _)
\* the loop of resize over the drained pairs i..j, in their order (the range
\* is halved to keep the evaluation shallow; the turns i..mid are complete,
\* their hasher in hand, before the turn mid + 1 starts)
Rehash(st, pairs, i, j) ==
    IF i > j THEN st
    ELSE IF i = j THEN RehashOne(st, pairs[i])
    ELSE LET mid == (i + j) \div 2
             done == Rehash(st, pairs, i, mid)
         IN IF done.hasher \in 0..(DigestSpace - 1)
            THEN Rehash(done, pairs, mid + 1, j)
            ELSE done

ResizeSkipsFirst(bkts) ==
    LET target_size == IF bkts.len = 0 THEN INITIAL_CAPACITY ELSE 2 * bkts.len
        drained == Drain(bkts)
        pairs == IF drained = <<>> THEN drained ELSE Tail(drained)
    IN Rehash([new_buckets |-> BucketsNew(target_size), hasher |-> HasherNew],
              pairs, 1, Len(pairs)).new_buckets

ResizeTriples(bkts) ==
    LET target_size == IF bkts.len = 0 THEN INITIAL_CAPACITY ELSE 3 * bkts.len
        pairs == Drain(bkts)
    IN Rehash([new_buckets |-> BucketsNew(target_size), hasher |-> HasherNew],
              pairs, 1, Len(pairs)).new_buckets

Resize(bkts) ==
    LET target_size == IF bkts.len = 0 THEN INITIAL_CAPACITY ELSE 2 * bkts.len
        pairs == Drain(bkts)
    IN Rehash([new_buckets |-> BucketsNew(target_size), hasher |-> HasherNew],
              pairs, 1, Len(pairs)).new_buckets

Get(m, key) ==
    IF m.buckets.len = 0 THEN Panic    \* digest % 0
    ELSE Ok(BucketGet(ItemsOf(m.buckets, SlotOf(key, m.buckets.len)), key))

\* Option<&mut V>: the place <<bucket index, position>> of the value
GetMut(m, key) ==
    IF m.buckets.len = 0 THEN Panic    \* digest % 0
    ELSE LET idx == SlotOf(key, m.buckets.len)
             p == BucketGetMut(ItemsOf(m.buckets, idx), key)
         IN Ok(IF p = None THEN None ELSE Some(<<idx, p[1]>>))

ContainsKeyUnguarded(m, key) ==
    IF m.buckets.len = 0 THEN Panic
    ELSE Ok(BucketContainsKey(ItemsOf(m.buckets, SlotOf(key, m.buckets.len)), key))

ContainsKey(m, key) ==
    IF m.num_items = 0 THEN Ok(FALSE)
    ELSE IF m.buckets.len = 0 THEN Panic    \* digest % 0
    ELSE Ok(BucketContainsKey(ItemsOf(m.buckets, SlotOf(key, m.buckets.len)), key))

\* the value a reference <<bucket index, position>> points to
Deref(m, ref) == m.buckets.at[ref[1]][ref[2]][2]

GetBucketMut(bkts, key) ==
    LET b == IF bkts.len = 0 THEN Resize(bkts) ELSE bkts
    IN [buckets |-> b, idx |-> SlotOf(key, b.len)]

NeedsResizeAtLoad(m) ==
    LET l == m.buckets.len IN l = 0 \/ m.num_items >= LOAD_FACTOR * l

NeedsResize(m) ==
    LET l == m.buckets.len IN l = 0 \/ m.num_items > LOAD_FACTOR * l

InsertCountsNewKeys(m, key, value) ==
    LET b == IF NeedsResize(m) THEN Resize(m.buckets) ELSE m.buckets
        g == GetBucketMut(b, key)
        r == BucketInsert(ItemsOf(g.buckets, g.idx), key, value)
    IN [buckets |-> WithItems(g.buckets, g.idx, r.items),
        num_items |-> IF r.ret = None THEN m.num_items + 1 ELSE m.num_items,
        ret |-> Ok(r.ret)]

Insert(m, key, value) ==
    LET b == IF NeedsResize(m) THEN Resize(m.buckets) ELSE m.buckets
        g == GetBucketMut(b, key)
        r == BucketInsert(ItemsOf(g.buckets, g.idx), key, value)
    IN [buckets |-> WithItems(g.buckets, g.idx, r.items),
        num_items |-> m.num_items + 1,
        ret |-> Ok(r.ret)]

InsertMut(m, key, value) ==
    LET b == IF NeedsResize(m) THEN Resize(m.buckets) ELSE m.buckets
        g == GetBucketMut(b, key)
        r == BucketInsertMut(ItemsOf(g.buckets, g.idx), key, value)
    IN [buckets |-> WithItems(g.buckets, g.idx, r.items),
        num_items |-> m.num_items + 1,
        ret |-> Ok(<<g.idx, r.ret>>)]

Unchanged(m, ret) == [buckets |-> m.buckets, num_items |-> m.num_items, ret |-> ret]

RemoveKeepsCount(m, key) ==
    IF m.buckets.len = 0 THEN Unchanged(m, Panic)
    ELSE LET idx == SlotOf(key, m.buckets.len)
             r == BucketRemove(ItemsOf(m.buckets, idx), key)
         IN [buckets |-> WithItems(m.buckets, idx, r.items),
             num_items |-> m.num_items,
             ret |-> Ok(r.ret)]

RemoveAlwaysCounts(m, key) ==
    IF m.buckets.len = 0 THEN Unchanged(m, Panic)
    ELSE LET idx == SlotOf(key, m.buckets.len)
             r == BucketRemove(ItemsOf(m.buckets, idx), key)
         IN IF m.num_items = 0
            THEN Unchanged(m, Panic)
            ELSE [buckets |-> WithItems(m.buckets, idx, r.items),
                  num_items |-> m.num_items - 1,
                  ret |-> Ok(r.ret)]

Remove(m, key) ==
    IF m.buckets.len = 0 THEN Unchanged(m, Panic)    \* digest % 0
    ELSE LET idx == SlotOf(key, m.buckets.len)
             r == BucketRemove(ItemsOf(m.buckets, idx), key)
         IN IF r.ret # None /\ m.num_items = 0
            THEN Unchanged(m, Panic)    \* usize underflow
            ELSE [buckets |-> WithItems(m.buckets, idx, r.items),
                  num_items |-> IF r.ret # None THEN m.num_items - 1
                                ELSE m.num_items,
                  ret |-> Ok(r.ret)]

HashMapLen(m) == m.num_items

\* ---- Index<&Q> for HashMap (src/src/indexing.rs) ----
\* self.get(index).unwrap(): the value, or the panic of get or of unwrap
Index(m, key) ==
    LET g == Get(m, key)
    IN IF g.panic \/ g.val = None THEN Panic ELSE Ok(g.val[1])

\* ---- HashMapIterator (src/src/lib.rs) and ValuesMut (src/src/key_values.rs) ----
\* an iterator value: [bucket_idx, bucket_at], both counted from 0
IteratorNew == [bucket_idx |-> 0, bucket_at |-> 0]

IterNextOnePerBucket(m, it) ==
    IF m.num_items = 0 THEN [it |-> it, ret |-> None]
    ELSE IF it.bucket_idx >= m.buckets.len THEN [it |-> it, ret |-> None]
    ELSE LET here == IF it.bucket_at = 0
                     THEN BucketAt(ItemsOf(m.buckets, it.bucket_idx), 0)
                     ELSE None
             later == {i \in DOMAIN m.buckets.at : i > it.bucket_idx}
         IN IF here # None
            THEN [it |-> [it EXCEPT !.bucket_at = @ + 1], ret |-> here]
            ELSE IF later = {}
            THEN [it |-> [bucket_idx |-> m.buckets.len, bucket_at |-> 0],
                  ret |-> None]
            ELSE [it |-> [bucket_idx |-> Min(later), bucket_at |-> 1],
                  ret |-> BucketAt(m.buckets.at[Min(later)], 0)]

\* next(): the loop leaves a bucket whose at(bucket_at) is None, with
\* bucket_at reset to 0, so it stops at the first later bucket that holds a
\* pair, or past the last bucket
IterNext(m, it) ==
    IF m.num_items = 0 THEN [it |-> it, ret |-> None]
    ELSE IF it.bucket_idx >= m.buckets.len THEN [it |-> it, ret |-> None]
    ELSE LET here == BucketAt(ItemsOf(m.buckets, it.bucket_idx), it.bucket_at)
             later == {i \in DOMAIN m.buckets.at : i > it.bucket_idx}
         IN IF here # None
            THEN [it |-> [it EXCEPT !.bucket_at = @ + 1], ret |-> here]
            ELSE IF later = {}
            THEN [it |-> [bucket_idx |-> m.buckets.len, bucket_at |-> 0],
                  ret |-> None]
            ELSE [it |-> [bucket_idx |-> Min(later), bucket_at |-> 1],
                  ret |-> BucketAt(m.buckets.at[Min(later)], 0)]

\* ValuesMut::next: the walk is commented out; both paths end in None
ValuesMutNext(m, it) ==
    IF m.num_items = 0 THEN [it |-> it, ret |-> None]
    ELSE [it |-> it, ret |-> None]

\* ---- Entry (src/src/entry.rs) ----
\* an entry value: [tag, key, value], value the place of the stored value
\* of an Occupied entry
Vacant(key) == [tag |-> "Vacant", key |-> key, value |-> None]
Occupied(key, ref) == [tag |-> "Occupied", key |-> key, value |-> ref]

EntryNew(m, key) ==
    LET c == ContainsKey(m, key)
        g == GetMut(m, key)
    IN IF c.panic THEN Panic
       ELSE IF c.val
       THEN IF g.panic \/ g.val = None THEN Panic    \* unwrap
            ELSE Ok(Occupied(key, g.val[1]))
       ELSE Ok(Vacant(key))

OrInsertOverwrites(m, e, val) == InsertMut(m, e.key, val)

OrInsert(m, e, val) ==
    IF e.tag = "Vacant" THEN InsertMut(m, e.key, val)
    ELSE Unchanged(m, Ok(e.value))

\* the supplier f is called on the Vacant branch only
OrInsertWith(m, e, f) ==
    IF e.tag = "Vacant" THEN InsertMut(m, e.key, f[<<>>])
    ELSE Unchanged(m, Ok(e.value))

EntryKey(e) == e.key

\* *ref = v
WriteRef(m, ref, v) ==
    LET items == m.buckets.at[ref[1]]
        k == items[ref[2]][1]
    IN [buckets |-> WithItems(m.buckets, ref[1],
                              [items EXCEPT ![ref[2]] = <<k, v>>]),
        num_items |-> m.num_items]

AndModifySkips(m, e, f) == [m |-> m, entry |-> e]

\* f(oentry.value), f a function on the stored value
AndModify(m, e, f) ==
    IF e.tag = "Vacant" THEN [m |-> m, entry |-> e]
    ELSE [m |-> WriteRef(m, e.value, f[Deref(m, e.value)]), entry |-> e]

\* ---- the table and its caller ----
VARIABLES
    buckets,     \* HashMap.buckets
    num_items,   \* HashMap.num_items
    mode,        \* the caller: "idle", "loop" (repeating an insert), "iter",
                 \* "values_mut" (holding an iterator) or "panicked"
    iter,        \* the iterator the caller holds
    yielded,     \* what that iterator has returned so far
    last,        \* the last call: [op, key, val, f, tag, ret, prev]; prev is
                 \* the value the call right before it stored under the same
                 \* key (remove after insert, or_insert after or_insert)
    shadow,      \* per key, the value last stored under it and not removed since
    inserted,    \* the keys insert or insert_mut were ever called with
    distinct     \* every call so far that wrote was an insert of a new key

vars == <<buckets, num_items, mode, iter, yielded, last, shadow, inserted, distinct>>

M == [buckets |-> buckets, num_items |-> num_items]

\* the closures handed to and_modify: *e = *e % NumVals + 1, and *e = 1
Mutators == {[v \in Vals |-> (v % NumVals) + 1], [v \in Vals |-> 1]}
Suppliers == [{<<>>} -> Vals]

\* the record of a call; cap is buckets.len() as the call found it
Call(op, key, val, tag, ret) ==
    [op |-> op, key |-> key, val |-> val, f |-> <<>>, tag |-> tag, ret |-> ret,
     prev |-> <<>>, cap |-> buckets.len]

\* the value the last call stored under k, if it was the call op and stored one
PrevStored(op, k) ==
    IF last.op = op /\ last.key = k /\ (op = "or_insert" => last.tag = "Vacant")
    THEN Some(last.val) ELSE None

\* the count at which an insert into INITIAL_CAPACITY buckets resizes
Threshold == LOAD_FACTOR * INITIAL_CAPACITY + 1

\* single counted inserts are explored near the empty table and near Threshold
Room ==
    \/ num_items < MaxBurst
    \/ num_items >= Threshold /\ num_items < Threshold + MaxBurst

NoIterator == /\ iter' = IteratorNew
              /\ yielded' = <<>>

Init ==
    /\ buckets = HashMapNew.buckets
    /\ num_items = HashMapNew.num_items
    /\ mode = "idle"
    /\ iter = IteratorNew
    /\ yielded = <<>>
    /\ last = Call("new", 0, 0, "", Ok(None))
    /\ shadow = [k \in Keys |-> None]
    /\ inserted = {}
    /\ distinct = TRUE

\* the table after a call, or the panic that ended the program
Returns(r) ==
    /\ buckets' = r.buckets
    /\ num_items' = r.num_items
    /\ mode' = IF r.ret.panic THEN "panicked" ELSE "idle"

\* m.insert(k, v)
InsertCall(k, v) ==
    /\ mode = "idle"
    /\ Room
    /\ LET r == Insert(M, k, v)
       IN /\ Returns(r)
          /\ last' = Call("insert", k, v, "", r.ret)
    /\ shadow' = [shadow EXCEPT ![k] = Some(v)]
    /\ inserted' = inserted \cup {k}
    /\ distinct' = (distinct /\ k \notin inserted)
    /\ NoIterator

\* while m.len() <= 3 * capacity { m.insert(k, v) }, after m.insert(k, v):
\* one turn of the loop
InsertAgain ==
    /\ mode \in {"idle", "loop"}
    /\ last.op = "insert"
    /\ num_items <= LOAD_FACTOR * buckets.len
    /\ LOAD_FACTOR * buckets.len < Threshold + MaxBurst
    /\ LET r == Insert(M, last.key, last.val)
       IN /\ buckets' = r.buckets
          /\ num_items' = r.num_items
          /\ mode' = IF r.num_items <= LOAD_FACTOR * r.buckets.len
                     THEN "loop" ELSE "idle"
          /\ last' = Call("insert", last.key, last.val, "", r.ret)
    /\ distinct' = FALSE
    /\ UNCHANGED <<shadow, inserted>>
    /\ NoIterator

\* m.insert_mut(k, v)
InsertMutCall(k, v) ==
    /\ mode = "idle"
    /\ Room
    /\ LET r == InsertMut(M, k, v)
       IN /\ Returns(r)
          /\ last' = Call("insert_mut", k, v, "", r.ret)
    /\ shadow' = [shadow EXCEPT ![k] = Some(v)]
    /\ inserted' = inserted \cup {k}
    /\ distinct' = FALSE
    /\ NoIterator

\* m.remove(&k)
RemoveCall(k) ==
    /\ mode = "idle"
    /\ LET r == Remove(M, k)
       IN /\ Returns(r)
          /\ last' = [Call("remove", k, 0, "", r.ret) EXCEPT
                        !.prev = PrevStored("insert", k)]
    /\ shadow' = [shadow EXCEPT ![k] = None]
    /\ distinct' = FALSE
    /\ UNCHANGED inserted
    /\ NoIterator

\* a call that takes &self, or returns a reference without writing
Reads(op, k, ret) ==
    /\ mode = "idle"
    /\ mode' = IF ret.panic THEN "panicked" ELSE "idle"
    /\ last' = Call(op, k, 0, "", ret)
    /\ UNCHANGED <<buckets, num_items, shadow, inserted, distinct>>
    /\ NoIterator

\* m.get(&k)
GetCall(k) == Reads("get", k, Get(M, k))

\* m.get_mut(&k)
GetMutCall(k) == Reads("get_mut", k, GetMut(M, k))

\* m.contains_key(&k)
ContainsKeyCall(k) == Reads("contains_key", k, ContainsKey(M, k))

\* m[&k]
IndexCall(k) == Reads("index", k, Index(M, k))

\* what a map holds under k after or_insert(v) on its entry
ShadowOrInsert(k, v) ==
    [shadow EXCEPT ![k] = IF @ = None THEN Some(v) ELSE @]

\* the entry of k, consumed by a chain of entry calls that ends in r
EntryCall(op, k, v, f, e, r) ==
    /\ mode = "idle"
    /\ e.tag = "Vacant" => Room
    /\ Returns(r)
    /\ last' = [Call(op, k, v, e.tag, r.ret) EXCEPT
                   !.f = f,
                   !.prev = IF op = "or_insert" THEN PrevStored(op, k) ELSE None]
    /\ inserted' = IF e.tag = "Vacant" THEN inserted \cup {k} ELSE inserted
    /\ distinct' = FALSE
    /\ NoIterator

\* m.entry(k).or_insert(v)
EntryOrInsertCall(k, v) ==
    LET e == EntryNew(M, k)
    IN /\ ~e.panic
       /\ EntryCall("or_insert", k, v, <<>>, e.val, OrInsert(M, e.val, v))
       /\ shadow' = ShadowOrInsert(k, v)

\* m.entry(k).or_insert_with(f)
EntryOrInsertWithCall(k, f) ==
    LET e == EntryNew(M, k)
    IN /\ ~e.panic
       /\ EntryCall("or_insert_with", k, f[<<>>], <<>>, e.val,
                    OrInsertWith(M, e.val, f))
       /\ shadow' = ShadowOrInsert(k, f[<<>>])

\* m.entry(k).and_modify(f).or_insert(d)
EntryAndModifyOrInsertCall(k, f, d) ==
    LET e == EntryNew(M, k)
        a == AndModify(M, e.val, f)
    IN /\ ~e.panic
       /\ EntryCall("and_modify_or_insert", k, d, f, a.entry,
                    OrInsert(a.m, a.entry, d))
       /\ shadow' = [shadow EXCEPT ![k] = IF @ = None THEN Some(d)
                                          ELSE Some(f[@[1]])]

\* (&m).into_iter()
IntoIterCall ==
    /\ mode = "idle"
    /\ mode' = "iter"
    /\ iter' = IteratorNew
    /\ yielded' = <<>>
    /\ last' = Call("into_iter", 0, 0, "", Ok(None))
    /\ UNCHANGED <<buckets, num_items, shadow, inserted, distinct>>

\* it.next() on the pair iterator; the caller lets go of it at None
NextCall ==
    /\ mode = "iter"
    /\ LET r == IterNext(M, iter)
       IN /\ iter' = r.it
          /\ yielded' = yielded \o r.ret
          /\ mode' = IF r.ret = None THEN "idle" ELSE "iter"
          /\ last' = Call("next", 0, 0, "", Ok(r.ret))
    /\ UNCHANGED <<buckets, num_items, shadow, inserted, distinct>>

\* m.values_mut()
ValuesMutCall ==
    /\ mode = "idle"
    /\ mode' = "values_mut"
    /\ iter' = IteratorNew
    /\ yielded' = <<>>
    /\ last' = Call("values_mut", 0, 0, "", Ok(None))
    /\ UNCHANGED <<buckets, num_items, shadow, inserted, distinct>>

\* it.next() on the mutable-values iterator
ValuesMutNextCall ==
    /\ mode = "values_mut"
    /\ LET r == ValuesMutNext(M, iter)
       IN /\ iter' = r.it
          /\ yielded' = yielded \o r.ret
          /\ mode' = IF r.ret = None THEN "idle" ELSE "values_mut"
          /\ last' = Call("values_mut_next", 0, 0, "", Ok(r.ret))
    /\ UNCHANGED <<buckets, num_items, shadow, inserted, distinct>>

Next ==
    \/ \E k \in Keys, v \in Vals : InsertCall(k, v)
    \/ InsertAgain
    \/ \E k \in Keys, v \in Vals : InsertMutCall(k, v)
    \/ \E k \in Keys : RemoveCall(k)
    \/ \E k \in Keys : GetCall(k)
    \/ \E k \in Keys : GetMutCall(k)
    \/ \E k \in Keys : ContainsKeyCall(k)
    \/ \E k \in Keys : IndexCall(k)
    \/ \E k \in Keys, v \in Vals : EntryOrInsertCall(k, v)
    \/ \E k \in Keys, f \in Suppliers : EntryOrInsertWithCall(k, f)
    \/ \E k \in Keys, f \in Mutators, d \in Vals : EntryAndModifyOrInsertCall(k, f, d)
    \/ IntoIterCall
    \/ NextCall
    \/ ValuesMutCall
    \/ ValuesMutNextCall

Spec == Init /\ [][Next]_vars

\* ---- a caller that only inserts distinct keys ----
\* the caller's n-th key, n = 0, 1, ...: 1, 1025, 2049, 3073, 2, 1026, ...,
\* distinct for n < (LOAD_FACTOR + 1) * INITIAL_CAPACITY, each four in a row
\* sharing a slot of the first bucket array
DistinctKey(n) ==
    (n % (LOAD_FACTOR + 1)) * INITIAL_CAPACITY + (n \div (LOAD_FACTOR + 1)) + 1

\* m.insert(k, v) with k the caller's next key: as in Spec, with a key no
\* earlier call has used
InsertNextKey ==
    /\ mode = "idle"
    /\ distinct
    /\ num_items < Threshold + MaxBurst
    /\ LET k == DistinctKey(num_items)
           v == (num_items % NumVals) + 1
           r == Insert(M, k, v)
       IN /\ Returns(r)
          /\ last' = Call("insert", k, v, "", r.ret)
          /\ inserted' = inserted \cup {k}
    /\ UNCHANGED <<shadow, distinct>>
    /\ NoIterator

\* the walks are explored near the empty table and near Threshold
IntoIterAtEdge == Room /\ IntoIterCall

NextDistinct ==
    \/ InsertNextKey
    \/ IntoIterAtEdge
    \/ NextCall

SpecDistinct == Init /\ [][NextDistinct]_vars

\* ---- a caller whose keys all share one bucket ----
\* three u64 keys whose digests share a bucket among 1024
BucketKeys == {3, 1027, 2051}

\* m.insert(k, v), as in Spec, with a key of BucketKeys
InsertColliding(k, v) ==
    /\ mode = "idle"
    /\ Room
    /\ LET r == Insert(M, k, v)
       IN /\ Returns(r)
          /\ last' = Call("insert", k, v, "", r.ret)
    /\ inserted' = inserted \cup {k}
    /\ distinct' = (distinct /\ k \notin inserted)
    /\ UNCHANGED shadow
    /\ NoIterator

\* m.remove(&k) with a key of BucketKeys; prev is the position at which the
\* bucket of k held it before the call
RemoveColliding(k) ==
    /\ mode = "idle"
    /\ LET r == Remove(M, k)
           found == IF buckets.len = 0 THEN None
                    ELSE BucketGetMut(ItemsOf(buckets, SlotOf(k, buckets.len)), k)
       IN /\ Returns(r)
          /\ last' = [Call("remove", k, 0, "", r.ret) EXCEPT !.prev = found]
    /\ distinct' = FALSE
    /\ UNCHANGED <<shadow, inserted>>
    /\ NoIterator

NextBucket ==
    \/ \E k \in BucketKeys, v \in Vals : InsertColliding(k, v)
    \/ \E k \in BucketKeys : RemoveColliding(k)

SpecBucket == Init /\ [][NextBucket]_vars

\* ---- the claims ----
\* the number of pairs held across all buckets
StoredPairs(bkts) == Len(Drain(bkts))

Grown == buckets.len > INITIAL_CAPACITY

\* C1: right after insert(k, v), in whatever state the table was, get(k)
\* returns v.
C1_RoundTrip ==
    last.op = "insert" => Get(M, last.key) = Ok(Some(last.val))

\* an insert that replaced a value in a table that has grown past its first size
C1_Witness ==
    /\ last.op = "insert"
    /\ Grown
    /\ last.ret.val # None
    /\ last.ret.val # Some(last.val)
    /\ Get(M, last.key) = Ok(Some(last.val))

\* C2: when k holds v1 (inserted and not removed since), insert(k, v2)
\* returns v1 and get(k) then returns v2.
C2_Replacement ==
    [][(last'.op = "insert" /\ shadow[last'.key] # None)
         => /\ last'.ret = Ok(shadow[last'.key])
            /\ Get(M', last'.key) = Ok(Some(last'.val))]_vars

\* C3: remove(k) right after insert(k, v) returns v, get(k) is then absent
\* and len() is one less than before the remove.
C3_Removal ==
    [][(last.op = "insert" /\ last'.op = "remove" /\ last'.key = last.key)
         => /\ last'.ret = Ok(Some(last.val))
            /\ Get(M', last.key) = Ok(None)
            /\ HashMapLen(M') = HashMapLen(M) - 1]_vars

\* a remove right after the insert of its key, in a grown table that holds
\* another pair
C3_Witness ==
    /\ last.op = "remove"
    /\ last.prev # None
    /\ last.ret = Ok(last.prev)
    /\ Grown
    /\ StoredPairs(buckets) > 0
    /\ Get(M, last.key) = Ok(None)

\* C4: remove(k) of a key never inserted returns absent, without a panic,
\* and leaves len() and the stored pairs as they were; also on a new table.
C4_IdempotentAbsence ==
    [][(last'.op = "remove" /\ last'.key \notin inserted)
         => /\ last'.ret = Ok(None)
            /\ buckets' = buckets
            /\ num_items' = num_items]_vars

\* C5: get(k) and get_mut(k) on a table whose bucket array is empty return
\* absent and do not panic.
C5_EmptyTableReads ==
    (last.op \in {"get", "get_mut"} /\ buckets.len = 0) => last.ret = Ok(None)

\* C6: len() equals the number of pairs held across all buckets.
C6_CountInvariant == HashMapLen(M) = StoredPairs(buckets)

\* C7: after N inserts of distinct keys into a new table and no other
\* writing call, the pair iterator yields N pairs, with the inserted keys.
C7_IterationComplete ==
    (distinct /\ last.op = "next" /\ last.ret.val = None)
      => /\ Len(yielded) = Cardinality(inserted)
         /\ {yielded[i][1] : i \in 1..Len(yielded)} = inserted

\* a finished walk over two distinct keys that share a bucket
C7_Witness ==
    /\ distinct
    /\ last.op = "next"
    /\ last.ret.val = None
    /\ Len(yielded) = 2
    /\ Cardinality(DOMAIN buckets.at) = 1

\* C8: entry(k).or_insert(v1) on an absent key stores v1 and returns a
\* reference to it; entry(k).or_insert(v2) right after it is Occupied,
\* returns the stored v1 and leaves it.
C8_EntrySemantics ==
    /\ (last.op = "or_insert" /\ last.tag = "Vacant")
         => /\ Get(M, last.key) = Ok(Some(last.val))
            /\ ~last.ret.panic
            /\ Deref(M, last.ret.val) = last.val
    /\ (last.op = "or_insert" /\ last.prev # None)
         => /\ last.tag = "Occupied"
            /\ ~last.ret.panic
            /\ Some(Deref(M, last.ret.val)) = last.prev
            /\ Get(M, last.key) = Ok(last.prev)

\* the second or_insert of a key, given another value than the first
C8_Witness ==
    /\ last.op = "or_insert"
    /\ last.prev # None
    /\ last.prev # Some(last.val)
    /\ last.tag = "Occupied"
    /\ Get(M, last.key) = Ok(last.prev)

\* C9: entry(k).and_modify(f).or_insert(d): on an absent k the entry stays
\* Vacant, f is not applied and d is stored; on a k holding v the entry stays
\* Occupied, the stored value becomes f(v) and d is not stored.
C9_AndModifyChain ==
    [][last'.op = "and_modify_or_insert"
         => LET k == last'.key
                f == last'.f
                d == last'.val
            IN IF ContainsKey(M, k) = Ok(TRUE)
               THEN /\ last'.tag = "Occupied"
                    /\ Get(M', k) = Ok(Some(f[Get(M, k).val[1]]))
                    /\ Deref(M', last'.ret.val) = f[Get(M, k).val[1]]
                    /\ StoredPairs(buckets') = StoredPairs(buckets)
               ELSE /\ last'.tag = "Vacant"
                    /\ Get(M', k) = Ok(Some(d))
                    /\ Deref(M', last'.ret.val) = d]_vars

\* the chain on a present key: f has changed the stored value and d, which
\* differs from it, was not stored
C9_Witness ==
    /\ last.op = "and_modify_or_insert"
    /\ last.tag = "Occupied"
    /\ last.f[1] # 1
    /\ Get(M, last.key) = Ok(Some(last.f[1]))
    /\ last.val # last.f[1]

\* C10: the iterator of values_mut() yields one item per stored pair before
\* it reports exhaustion.
C10_ValuesMutComplete ==
    (last.op = "values_mut_next" /\ last.ret.val = None)
      => Len(yielded) = StoredPairs(buckets)

\* C11: m[k] returns the value get(k) returns when k is present and panics
\* when k is absent, where get(k) returns absent without a panic.
C11_Indexing ==
    last.op = "index"
      => LET g == Get(M, last.key)
         IN IF shadow[last.key] # None
            THEN /\ g = Ok(shadow[last.key])
                 /\ last.ret = Ok(g.val[1])
            ELSE /\ g = Ok(None)
                 /\ last.ret = Panic

\* C12: an insert or insert_mut call resizes if and only if it finds the
\* bucket array empty or len() > 3 * capacity; the capacity is then strictly
\* larger and the new pair is in its slot of the resized array.
C12_GrowthTrigger ==
    [][last'.op \in {"insert", "insert_mut"}
         => LET grows == buckets.len = 0 \/ num_items > LOAD_FACTOR * buckets.len
                k == last'.key
            IN /\ grows <=> buckets'.len # buckets.len
               /\ grows => buckets'.len > buckets.len
               /\ BucketGet(ItemsOf(buckets', SlotOf(k, buckets'.len)), k)
                    = Some(last'.val)]_vars

\* an insert that found more than 3 * 1024 counted items in 1024 buckets
\* and left its pair in its slot among 2048
C12_Witness ==
    /\ last.op \in {"insert", "insert_mut"}
    /\ last.cap = INITIAL_CAPACITY
    /\ buckets.len = 2 * INITIAL_CAPACITY
    /\ num_items = Threshold + 1
    /\ BucketGet(ItemsOf(buckets, SlotOf(last.key, buckets.len)), last.key)
         = Some(last.val)

\* C13: contains_key(k) panics in no reachable state: it returns false
\* whenever len() is 0, the bucket array allocated or not, and whenever
\* len() > 0 the bucket array is not empty.
C13_ContainsKeyTotal ==
    /\ \A k \in Keys :
          /\ ~ContainsKey(M, k).panic
          /\ HashMapLen(M) = 0 => ContainsKey(M, k) = Ok(FALSE)
    /\ HashMapLen(M) > 0 => buckets.len > 0
    /\ last.op = "contains_key" => ~last.ret.panic

\* contains_key on a table that has its buckets and counts no item
C13_Witness ==
    /\ last.op = "contains_key"
    /\ last.ret = Ok(FALSE)
    /\ HashMapLen(M) = 0
    /\ buckets.len = INITIAL_CAPACITY

\* C14: every pair (k, v) stored in bucket i has digest(k) mod capacity = i,
\* digest(k) being the digest of k alone, as get, contains_key and remove
\* compute it; also after a resize of a table that holds two or more pairs.
C14_PlacementInvariant ==
    \A i \in DOMAIN buckets.at :
       \A j \in 1..Len(buckets.at[i]) :
          SlotOf(buckets.at[i][j][1], buckets.len) = i

\* C15: every call of insert or insert_mut, also the one an entry makes for
\* an absent key, increases len() by exactly one, the key present or not;
\* len() after two inserts of one key into a new table is 2.
C15_UnconditionalCounting ==
    [][(\/ last'.op \in {"insert", "insert_mut"}
        \/ /\ last'.op \in {"or_insert", "or_insert_with", "and_modify_or_insert"}
           /\ last'.tag = "Vacant")
         => HashMapLen(M') = HashMapLen(M) + 1]_vars

\* the second insert of one key into a new table: it replaced the value,
\* one pair is stored and len() is 2
C15_Witness ==
    /\ last.op = "insert"
    /\ last.cap = INITIAL_CAPACITY
    /\ last.ret.val # None
    /\ StoredPairs(buckets) = 1
    /\ HashMapLen(M) = 2

\* the calls that reach insert or insert_mut
InsertingOps ==
    {"insert", "insert_mut", "or_insert", "or_insert_with", "and_modify_or_insert"}

\* C16: the bucket array has length 0 exactly until the first insert or
\* insert_mut call, 1024 from that call on, and afterwards changes only by
\* doubling; no call, remove included, makes it shorter.
C16_CapacityProgression ==
    [][/\ buckets'.len >= buckets.len
       /\ buckets'.len # buckets.len
            => /\ last'.op \in InsertingOps
               /\ buckets'.len = IF buckets.len = 0 THEN INITIAL_CAPACITY
                                 ELSE 2 * buckets.len
       /\ (buckets.len = 0 /\ last'.op \in {"insert", "insert_mut"})
            => buckets'.len = INITIAL_CAPACITY
       /\ buckets'.len = 0 <=> inserted' = {}]_vars

\* a remove that took a pair from a table of 2048 buckets and left it 2048
C16_Witness ==
    /\ last.op = "remove"
    /\ last.ret.val # None
    /\ last.cap = 2 * INITIAL_CAPACITY
    /\ buckets.len = 2 * INITIAL_CAPACITY

\* how many times the pair p occurs in the sequence of pairs d
Occurrences(d, p) == Cardinality({i \in 1..Len(d) : d[i] = p})

\* how many times the pair p is stored across all buckets
PairCount(bkts, p) == Occurrences(Drain(bkts), p)

\* the two bucket arrays store the same multiset of pairs
SameContents(a, b) ==
    LET da == Drain(a)
        db == Drain(b)
    IN /\ Len(da) = Len(db)
       /\ \A i \in 1..Len(da) : Occurrences(da, da[i]) = Occurrences(db, da[i])

C18_BucketKeyUniqueness ==
    \A i \in DOMAIN buckets.at :
       \A j1, j2 \in 1..Len(buckets.at[i]) :
          buckets.at[i][j1][1] = buckets.at[i][j2][1] => j1 = j2

\* an insert that replaced the value of a key in a bucket of two pairs
C18_Witness ==
    /\ last.op = "insert"
    /\ last.ret.val # None
    /\ \E i \in DOMAIN buckets.at :
          /\ Len(buckets.at[i]) = 2
          /\ BucketGet(buckets.at[i], last.key) = Some(last.val)

\* C19: Bucket::remove(k) on a bucket that holds k at position i returns
\* the value of k and leaves the bucket one shorter, the former last pair at
\* position i and every other pair where it was; on a bucket without k it
\* returns absent and leaves the bucket as it was.
C19_SwapRemoval ==
    [][(last'.op = "remove" /\ ~last'.ret.panic)
         => LET k == last'.key
                idx == SlotOf(k, buckets.len)
                items == ItemsOf(buckets, idx)
                after == ItemsOf(buckets', idx)
                i == Position(items, k, 1)
                n == Len(items)
            IN IF i = 0
               THEN /\ last'.ret = Ok(None)
                    /\ after = items
               ELSE /\ last'.ret = Ok(Some(items[i][2]))
                    /\ Len(after) = n - 1
                    /\ i < n => after[i] = items[n]
                    /\ \A j \in 1..(n - 1) : j # i => after[j] = items[j]]_vars

\* a remove of the first of three pairs of a bucket: the third took its place
C19_Witness ==
    /\ last.op = "remove"
    /\ last.prev = Some(1)
    /\ last.ret.val # None
    /\ Len(ItemsOf(buckets, SlotOf(last.key, buckets.len))) = 2

\* C20: a key whose last write stored v and that no call has removed since
\* is found by get, with v, and by contains_key, whatever inserts and
\* removes of other keys and whatever resizes have followed.
C20_KeyPersistence ==
    \A k \in Keys :
       shadow[k] # None
         => /\ Get(M, k) = Ok(shadow[k])
            /\ ContainsKey(M, k) = Ok(TRUE)

\* C21: in every reachable state len() is at least the number of pairs
\* stored across all buckets: the decrement of remove does not underflow,
\* and len() == 0 means that no pair is stored.
C21_CounterLowerBound ==
    /\ HashMapLen(M) >= StoredPairs(buckets)
    /\ HashMapLen(M) = 0 => StoredPairs(buckets) = 0
    /\ \A k \in Keys : buckets.len > 0 => ~Remove(M, k).ret.panic
    /\ (last.op = "remove" /\ last.cap > 0) => ~last.ret.panic

\* a remove that took the last stored pair and brought len() to 0
C21_Witness ==
    /\ last.op = "remove"
    /\ last.ret.val # None
    /\ last.cap = INITIAL_CAPACITY
    /\ HashMapLen(M) = 0
    /\ StoredPairs(buckets) = 0

====
